---- MODULE Spec2Model ----
(***************************************************************************)
(* HelloTriangle.cpp: window/context initialisation, one-time texture and  *)
(* geometry setup, the render loop and teardown, over an explicit model of *)
(* the GLFW window state and of the OpenGL ambient binding state.          *)
(*                                                                         *)
(* Lengths are in bytes, coordinates in half units (0.5f is 1, 1.0f is 2), *)
(* colours in tenths, rotation angles in quarter turns.                    *)
(***************************************************************************)
EXTENDS Integers, Sequences, FiniteSets, TLC

VARIABLES pc, handle, glfw, gl, transform, trace, iter, clock, log, exitCode,
          calls, outcome

vars == <<pc, handle, glfw, gl, transform, trace, iter, clock, log, exitCode,
          calls, outcome>>

----------------------------------------------------------------------------
(* Bounds of the model *)

\* render-loop iterations explored
MaxIter == 3
\* largest value of the clock read by glfwGetTime, in quarter turns
MaxClock == 2
\* number of framebuffer sizes a resize event may report
MaxSizes == 2

----------------------------------------------------------------------------
(* Program constants *)

SCR_WIDTH == 800
SCR_HEIGHT == 600
FloatSize == 4
\* floats per vertex in the stride argument of glVertexAttribPointer
StrideFloats == 5
\* float offset of the texture-coordinate attribute
TexOffsetFloats == 6
DrawCount == 6
\* records in the vertices array
VertexCount == 4

NULL == "null"
None == "none"
PRESS == "GLFW_PRESS"
RELEASE == "GLFW_RELEASE"

Objects == {"VAO", "VBO", "EBO", "texture1", "program"}

vertices ==
    << 1,  1, 0,   2, 2,
       1, -1, 0,   2, 0,
      -1, -1, 0,   0, 0,
      -1,  1, 0,   0, 2 >>

indices_swapped == <<0, 1, 2, 1, 2, 0>>

indices == <<0, 1, 3, 1, 2, 3>>

MsgWindow == "Failed to create GLFW window"
MsgGlad == "failed to initialize GLAD"
MsgTexture == "Failed to load texture"

\* framebuffer sizes the windowing system may report on a resize
Sizes == { <<SCR_WIDTH + 160 * k, SCR_HEIGHT + 120 * k>> : k \in 1..MaxSizes }

----------------------------------------------------------------------------
(* The OpenGL state machine *)

NoAttrib == [enabled |-> FALSE, size |-> 0, stride |-> 0, offset |-> 0, buffer |-> None]

NoTexture == [wrapS |-> "default", wrapT |-> "default", minFilter |-> "default",
              magFilter |-> "default", image |-> None, mipmaps |-> FALSE]

\* state of a context nobody has made current
GLNone ==
    [ loaded      |-> FALSE,
      created     |-> [o \in Objects |-> 0],
      deleted     |-> [o \in Objects |-> 0],
      activeUnit  |-> 0,
      texBinding  |-> [u \in 0..1 |-> None],
      tex         |-> NoTexture,
      arrayBuffer |-> None,
      boundVAO    |-> None,
      vaoEBO      |-> None,
      attrib      |-> [i \in 0..1 |-> NoAttrib],
      bufferData  |-> [b \in {"VBO", "EBO"} |-> << >>],
      program     |-> None,
      sampler     |-> -1,
      uniform     |-> << >>,
      viewport    |-> <<0, 0>>,
      clearColor  |-> <<0, 0, 0, 0>>,
      frame       |-> "undefined",
      lastDraw    |-> [count |-> 0, program |-> None, unit |-> 0, texture |-> None,
                       vao |-> None, ebo |-> None] ]

glGen(g, o) == [g EXCEPT !.created[o] = @ + 1]

glActiveTexture(g, u) == [g EXCEPT !.activeUnit = u]

glBindTexture(g, t) == [g EXCEPT !.texBinding[g.activeUnit] = t]

\* texture calls act on the texture bound to the active unit; none bound: GL error, no effect
glTexParameteri(g, field, value) ==
    IF g.texBinding[g.activeUnit] = None THEN g
    ELSE [g EXCEPT !.tex = [@ EXCEPT ![field] = value]]

glTexImage2D(g, format) ==
    IF g.texBinding[g.activeUnit] = None THEN g
    ELSE [g EXCEPT !.tex.image = format]

glGenerateMipmap(g) ==
    IF g.texBinding[g.activeUnit] = None THEN g
    ELSE [g EXCEPT !.tex.mipmaps = TRUE]

glBindVertexArray(g, v) == [g EXCEPT !.boundVAO = v]

\* the element-array binding is state of the bound vertex array object
glBindBuffer(g, target, b) ==
    IF target = "ARRAY" THEN [g EXCEPT !.arrayBuffer = b]
    ELSE IF g.boundVAO = None THEN g
    ELSE [g EXCEPT !.vaoEBO = b]

BoundBuffer(g, target) ==
    IF target = "ARRAY" THEN g.arrayBuffer
    ELSE IF g.boundVAO = None THEN None ELSE g.vaoEBO

glBufferData(g, target, data) ==
    IF BoundBuffer(g, target) = None THEN g
    ELSE [g EXCEPT !.bufferData[BoundBuffer(g, target)] = data]

glVertexAttribPointer(g, index, size, stride, offset) ==
    IF g.boundVAO = None THEN g
    ELSE [g EXCEPT !.attrib[index] =
             [@ EXCEPT !.size = size, !.stride = stride, !.offset = offset,
                       !.buffer = g.arrayBuffer]]

glEnableVertexAttribArray(g, index) ==
    IF g.boundVAO = None THEN g
    ELSE [g EXCEPT !.attrib[index].enabled = TRUE]

glUseProgram(g, p) == [g EXCEPT !.program = p]

glUniform1i(g, value) == IF g.program = None THEN g ELSE [g EXCEPT !.sampler = value]

glUniformMatrix4fv(g, m) == IF g.program = None THEN g ELSE [g EXCEPT !.uniform = m]

glViewport(g, w, h) == [g EXCEPT !.viewport = <<w, h>>]

glClearColor(g, c) == [g EXCEPT !.clearColor = c]

glClear(g) == [g EXCEPT !.frame = "cleared"]

glDrawElements(g, count) ==
    [g EXCEPT !.frame = "drawn",
              !.lastDraw = [count |-> count, program |-> g.program,
                            unit |-> g.activeUnit,
                            texture |-> g.texBinding[g.activeUnit],
                            vao |-> g.boundVAO,
                            ebo |-> BoundBuffer(g, "ELEMENT")]]

\* deleting the bound vertex array reverts the binding to zero
glDeleteVertexArrays(g, v) ==
    [g EXCEPT !.deleted[v] = @ + 1,
              !.boundVAO = IF @ = v THEN None ELSE @]

glDeleteBuffers(g, b) ==
    [g EXCEPT !.deleted[b] = @ + 1,
              !.arrayBuffer = IF @ = b THEN None ELSE @,
              !.vaoEBO = IF g.boundVAO # None /\ @ = b THEN None ELSE @]

----------------------------------------------------------------------------
(* The GLFW library and window state *)

GLFWNone ==
    [ init |-> FALSE, window |-> FALSE, context |-> FALSE, callback |-> FALSE,
      shouldClose |-> FALSE, escape |-> RELEASE, terminated |-> 0 ]

glfwInit(w) == [w EXCEPT !.init = TRUE]

glfwCreateWindow(w) == [w EXCEPT !.window = TRUE, !.shouldClose = FALSE, !.escape = RELEASE]

glfwMakeContextCurrent(w) == [w EXCEPT !.context = TRUE]

glfwSetFramebufferSizeCallback(w) == [w EXCEPT !.callback = TRUE]

\* destroys every window and context; a no-op apart from the count when not initialised
glfwTerminate(w) ==
    [w EXCEPT !.init = FALSE, !.window = FALSE, !.context = FALSE, !.callback = FALSE,
              !.terminated = @ + 1]

glfwGetKey(w) == w.escape

glfwSetWindowShouldClose(w, value) == [w EXCEPT !.shouldClose = value]

glfwWindowShouldClose(w) == w.shouldClose

\* seconds since glfwInit, 0 with an error when the library is not initialised
glfwGetTime(w, now) == IF w.init THEN now ELSE 0

----------------------------------------------------------------------------
(* processInput, framebuffer_size_callback, initlializeGLFW *)

processInput_assign(w) == glfwSetWindowShouldClose(w, glfwGetKey(w) = PRESS)

processInput(w) ==
    IF glfwGetKey(w) = PRESS THEN glfwSetWindowShouldClose(w, TRUE) ELSE w

framebuffer_size_callback(g, width, height) == glViewport(g, width, height)

initlializeGLFW_keepHandle(w, g, l, c, createOk, gladOk) ==
    LET w0 == glfwInit(w)
        c1 == [c EXCEPT !.createWindow = @ + 1]
    IN  IF ~createOk
        THEN [glfw |-> glfwTerminate(w0), gl |-> g, log |-> Append(l, MsgWindow),
              calls |-> c1, ret |-> NULL]
        ELSE [glfw |-> glfwSetFramebufferSizeCallback(
                           glfwMakeContextCurrent(glfwCreateWindow(w0))),
              gl |-> [g EXCEPT !.viewport = <<SCR_WIDTH, SCR_HEIGHT>>, !.loaded = gladOk],
              log |-> IF gladOk THEN l ELSE Append(l, MsgGlad),
              calls |-> [c1 EXCEPT !.gladLoad = @ + 1],
              ret |-> "window"]

\* w: GLFW state, g: GL state, l: log, c: call counters; createOk and gladOk are the
\* outcomes of glfwCreateWindow and gladLoadGLLoader
initlializeGLFW(w, g, l, c, createOk, gladOk) ==
    LET w0 == glfwInit(w)
        c1 == [c EXCEPT !.createWindow = @ + 1]
    IN  IF ~createOk
        THEN [glfw |-> glfwTerminate(w0), gl |-> g, log |-> Append(l, MsgWindow),
              calls |-> c1, ret |-> NULL]
        ELSE LET w1 == glfwCreateWindow(w0)
                 w2 == glfwMakeContextCurrent(w1)
                 w3 == glfwSetFramebufferSizeCallback(w2)
                 g1 == [g EXCEPT !.viewport = <<SCR_WIDTH, SCR_HEIGHT>>]
                 c2 == [c1 EXCEPT !.gladLoad = @ + 1]
             IN  IF ~gladOk
                 THEN [glfw |-> w3, gl |-> g1, log |-> Append(l, MsgGlad),
                       calls |-> c2, ret |-> NULL]
                 ELSE [glfw |-> w3, gl |-> [g1 EXCEPT !.loaded = TRUE], log |-> l,
                       calls |-> c2, ret |-> "window"]

----------------------------------------------------------------------------
(* Shader (Shader.h): constructor, use, setInt *)

Shader(g) == glGen(g, "program")

Shader_use(g) == glUseProgram(g, "program")

Shader_setInt(g, value) == glUniform1i(g, value)

----------------------------------------------------------------------------
(* generateTexture *)

generateTexture_keepBound(g, l, c, decodeOk, textureNum, hasAlpha) ==
    LET g1 == glGen(g, "texture1")
        g2 == glActiveTexture(g1, textureNum)
        g3 == glBindTexture(g2, "texture1")
        g4 == glTexParameteri(g3, "wrapS", "GL_REPEAT")
        g5 == glTexParameteri(g4, "wrapT", "GL_REPEAT")
        g6 == glTexParameteri(g5, "minFilter", "GL_LINEAR_MIPMAP_LINEAR")
        g7 == glTexParameteri(g6, "magFilter", "GL_LINEAR")
        c1 == [c EXCEPT !.flip = IF hasAlpha THEN TRUE ELSE @, !.stbiLoad = @ + 1]
        g8 == IF decodeOk
              THEN glGenerateMipmap(glTexImage2D(g7, IF hasAlpha THEN "RGBA" ELSE "RGB"))
              ELSE g7
    IN  [gl |-> g8, log |-> IF decodeOk THEN l ELSE Append(l, MsgTexture),
         calls |-> [c1 EXCEPT !.stbiFree = @ + 1]]

\* g: GL state, l: log, c: call counters; decodeOk is the outcome of stbi_load
generateTexture(g, l, c, decodeOk, textureNum, hasAlpha) ==
    LET g1 == glGen(g, "texture1")
        g2 == glActiveTexture(g1, textureNum)
        g3 == glBindTexture(g2, "texture1")
        g4 == glTexParameteri(g3, "wrapS", "GL_REPEAT")
        g5 == glTexParameteri(g4, "wrapT", "GL_REPEAT")
        g6 == glTexParameteri(g5, "minFilter", "GL_LINEAR_MIPMAP_LINEAR")
        g7 == glTexParameteri(g6, "magFilter", "GL_LINEAR")
        c1 == [c EXCEPT !.flip = IF hasAlpha THEN TRUE ELSE @, !.stbiLoad = @ + 1]
        g8 == IF decodeOk
              THEN glGenerateMipmap(glTexImage2D(g7, IF hasAlpha THEN "RGBA" ELSE "RGB"))
              ELSE g7
        c2 == [c1 EXCEPT !.stbiFree = @ + 1]
        g9 == glBindTexture(g8, None)
    IN  [gl |-> g9, log |-> IF decodeOk THEN l ELSE Append(l, MsgTexture), calls |-> c2]

----------------------------------------------------------------------------
(* main: geometry setup *)

GenObjects(g) == glGen(glGen(glGen(g, "VAO"), "VBO"), "EBO")

SetupGeometry(g) ==
    LET g1 == glBindVertexArray(g, "VAO")
        g2 == glBindBuffer(g1, "ARRAY", "VBO")
        g3 == glBufferData(g2, "ARRAY", vertices)
        g4 == glBindBuffer(g3, "ELEMENT", "EBO")
        g5 == glBufferData(g4, "ELEMENT", indices)
        g6 == glVertexAttribPointer(g5, 0, 3, StrideFloats * FloatSize, 0)
        g7 == glEnableVertexAttribArray(g6, 0)
        g8 == glVertexAttribPointer(g7, 1, 2, StrideFloats * FloatSize,
                                    TexOffsetFloats * FloatSize)
    IN  glEnableVertexAttribArray(g8, 1)

UnbindGeometry(g) == glBindVertexArray(glBindBuffer(g, "ARRAY", None), None)

Teardown(g) == glDeleteBuffers(glDeleteVertexArrays(g, "VAO"), "VBO")

----------------------------------------------------------------------------
(* renderLoop *)

Identity == <<1, 0, 0, 1, 0, 0>>

Cos(q) == CASE q % 4 = 0 -> 1 [] q % 4 = 2 -> -1 [] OTHER -> 0

Sin(q) == CASE q % 4 = 1 -> 1 [] q % 4 = 3 -> -1 [] OTHER -> 0

\* m * T(v), m = <<a, b, c, d, tx, ty>> standing for the rows (a b tx), (c d ty)
translate(m, v) ==
    <<m[1], m[2], m[3], m[4],
      m[1] * v[1] + m[2] * v[2] + m[5],
      m[3] * v[1] + m[4] * v[2] + m[6]>>

\* m * R(q) about the Z axis
rotate(m, q) ==
    <<m[1] * Cos(q) + m[2] * Sin(q), m[2] * Cos(q) - m[1] * Sin(q),
      m[3] * Cos(q) + m[4] * Sin(q), m[4] * Cos(q) - m[3] * Sin(q),
      m[5], m[6]>>

RecomputeTransform(prev, t) ==
    LET t0 == Identity
        t1 == translate(t0, <<1, -1>>)
    IN  rotate(t1, t)

LoopPrelude_noVAO(g) ==
    glBindTexture(glActiveTexture(Shader_setInt(Shader_use(g), 0), 0), "texture1")

LoopPrelude(g) ==
    LET g1 == Shader_use(g)
        g2 == Shader_setInt(g1, 0)
        g3 == glActiveTexture(g2, 0)
        g4 == glBindTexture(g3, "texture1")
    IN  glBindVertexArray(g4, "VAO")

LoopCondition_always(w) == TRUE

LoopCondition(w) == ~glfwWindowShouldClose(w)

BodyOrder == <<"input", "clear", "transform", "uniform", "draw", "swap", "poll">>

BodyNext_skipClear(p) ==
    CASE p = "input" -> "transform"
      [] p = "clear" -> "transform"
      [] p = "transform" -> "uniform"
      [] p = "uniform" -> "draw"
      [] p = "draw" -> "swap"
      [] p = "swap" -> "poll"
      [] p = "poll" -> "check"

\* the statement that follows statement p of the loop body
BodyNext(p) ==
    CASE p = "input" -> "clear"
      [] p = "clear" -> "transform"
      [] p = "transform" -> "uniform"
      [] p = "uniform" -> "draw"
      [] p = "draw" -> "swap"
      [] p = "swap" -> "poll"
      [] p = "poll" -> "check"

----------------------------------------------------------------------------
(* The program as a state machine: main, statement by statement *)

NoCalls == [createWindow |-> 0, gladLoad |-> 0, stbiLoad |-> 0, stbiFree |-> 0,
            flip |-> FALSE]

NoOutcome == [create |-> "pending", glad |-> "pending", decode |-> "pending"]

Verdict(ok) == IF ok THEN "ok" ELSE "fail"

Init ==
    /\ pc = "start"
    /\ handle = NULL
    /\ glfw = GLFWNone
    /\ gl = GLNone
    /\ transform = Identity
    /\ trace = << >>
    /\ iter = 0
    /\ clock = 0
    /\ log = << >>
    /\ exitCode = "running"
    /\ calls = NoCalls
    /\ outcome = NoOutcome

\* a call through an unloaded GL function pointer, or a GLFW call on the null window
\* handle: the process dies, or the call returns without effect
Undefined(next) ==
    \/ /\ pc' = "crashed"
       /\ exitCode' = "crash"
    \/ /\ pc' = next
       /\ exitCode' = exitCode

UndefinedInBody ==
    \/ /\ pc' = "crashed"
       /\ exitCode' = "crash"
       /\ trace' = trace
    \/ /\ pc' = BodyNext(pc)
       /\ exitCode' = exitCode
       /\ trace' = Append(trace, pc)

Proceed ==
    /\ pc' = BodyNext(pc)
    /\ trace' = Append(trace, pc)
    /\ exitCode' = exitCode

\* GLFWwindow* window{ initlializeGLFW() };
InitStep ==
    /\ pc = "start"
    /\ \E createOk \in BOOLEAN, gladOk \in BOOLEAN :
          LET r == initlializeGLFW(glfw, gl, log, calls, createOk, gladOk)
          IN  /\ glfw' = r.glfw
              /\ gl' = r.gl
              /\ log' = r.log
              /\ calls' = r.calls
              /\ handle' = r.ret
              /\ outcome' = [outcome EXCEPT
                                !.create = Verdict(createOk),
                                !.glad = IF createOk THEN Verdict(gladOk) ELSE @]
    /\ pc' = "shader"
    /\ UNCHANGED <<transform, trace, iter, clock, exitCode>>

\* Shader shader{ vertexShaderPath, fragmentShaderPath };
ShaderStep ==
    /\ pc = "shader"
    /\ \/ /\ gl.loaded
          /\ gl' = Shader(gl)
          /\ pc' = "texture"
          /\ exitCode' = exitCode
       \/ /\ ~gl.loaded
          /\ gl' = gl
          /\ Undefined("texture")
    /\ UNCHANGED <<handle, glfw, transform, trace, iter, clock, log, calls, outcome>>

\* generateTexture(texture1, "./notAbee.jpg");
TextureStep ==
    /\ pc = "texture"
    /\ \E decodeOk \in BOOLEAN :
          LET r == generateTexture(gl, log, calls, decodeOk, 0, FALSE)
          IN  \/ /\ gl.loaded
                 /\ gl' = r.gl
                 /\ log' = r.log
                 /\ calls' = r.calls
                 /\ outcome' = [outcome EXCEPT !.decode = Verdict(decodeOk)]
                 /\ pc' = "gen"
                 /\ exitCode' = exitCode
              \/ /\ ~gl.loaded
                 /\ gl' = gl
                 /\ \/ /\ pc' = "crashed"
                       /\ exitCode' = "crash"
                       /\ UNCHANGED <<log, calls, outcome>>
                    \/ /\ pc' = "gen"
                       /\ exitCode' = exitCode
                       /\ log' = r.log
                       /\ calls' = r.calls
                       /\ outcome' = [outcome EXCEPT !.decode = Verdict(decodeOk)]
    /\ UNCHANGED <<handle, glfw, transform, trace, iter, clock>>

GLStep(at, next, g) ==
    /\ pc = at
    /\ \/ /\ gl.loaded
          /\ gl' = g
          /\ pc' = next
          /\ exitCode' = exitCode
       \/ /\ ~gl.loaded
          /\ gl' = gl
          /\ Undefined(next)

\* glGenVertexArrays, glGenBuffers, glGenBuffers
GenStep ==
    /\ GLStep("gen", "setup", GenObjects(gl))
    /\ UNCHANGED <<handle, glfw, transform, trace, iter, clock, log, calls, outcome>>

SetupStep ==
    /\ GLStep("setup", "unbind", SetupGeometry(gl))
    /\ UNCHANGED <<handle, glfw, transform, trace, iter, clock, log, calls, outcome>>

UnbindStep ==
    /\ GLStep("unbind", "prelude", UnbindGeometry(gl))
    /\ UNCHANGED <<handle, glfw, transform, trace, iter, clock, log, calls, outcome>>

\* renderLoop, up to the while
PreludeStep ==
    /\ GLStep("prelude", "check", LoopPrelude(gl))
    /\ transform' = Identity
    /\ UNCHANGED <<handle, glfw, trace, iter, clock, log, calls, outcome>>

\* while (!glfwWindowShouldClose(window))
CheckStep ==
    /\ pc = "check"
    /\ \/ /\ handle # NULL
          /\ LoopCondition(glfw)
          /\ iter < MaxIter
          /\ pc' = "input"
          /\ iter' = iter + 1
          /\ trace' = << >>
          /\ exitCode' = exitCode
       \/ /\ handle # NULL
          /\ ~LoopCondition(glfw)
          /\ pc' = "teardown"
          /\ UNCHANGED <<iter, trace, exitCode>>
       \/ /\ handle = NULL
          /\ pc' = "crashed"
          /\ exitCode' = "crash"
          /\ UNCHANGED <<iter, trace>>
       \/ /\ handle = NULL
          /\ iter < MaxIter
          /\ pc' = "input"
          /\ iter' = iter + 1
          /\ trace' = << >>
          /\ exitCode' = exitCode
       \/ /\ handle = NULL
          /\ glfw.init
          /\ pc' = "teardown"
          /\ UNCHANGED <<iter, trace, exitCode>>
    /\ UNCHANGED <<handle, glfw, gl, transform, clock, log, calls, outcome>>

\* processInput(window);
InputStep ==
    /\ pc = "input"
    /\ \/ /\ handle # NULL
          /\ glfw' = processInput(glfw)
          /\ Proceed
       \/ /\ handle = NULL
          /\ glfw' = glfw
          /\ UndefinedInBody
    /\ UNCHANGED <<handle, gl, transform, iter, clock, log, calls, outcome>>

GLBodyStep(at, g) ==
    /\ pc = at
    /\ \/ /\ gl.loaded
          /\ gl' = g
          /\ Proceed
       \/ /\ ~gl.loaded
          /\ gl' = gl
          /\ UndefinedInBody

\* glClearColor(0.2f, 0.3f, 0.3f, 1.0f); glClear(GL_COLOR_BUFFER_BIT);
ClearStep ==
    /\ GLBodyStep("clear", glClear(glClearColor(gl, <<2, 3, 3, 10>>)))
    /\ UNCHANGED <<handle, glfw, transform, iter, clock, log, calls, outcome>>

TransformStep ==
    /\ pc = "transform"
    /\ transform' = RecomputeTransform(transform, glfwGetTime(glfw, clock))
    /\ Proceed
    /\ UNCHANGED <<handle, glfw, gl, iter, clock, log, calls, outcome>>

UniformStep ==
    /\ GLBodyStep("uniform", glUniformMatrix4fv(gl, transform))
    /\ UNCHANGED <<handle, glfw, transform, iter, clock, log, calls, outcome>>

DrawStep ==
    /\ GLBodyStep("draw", glDrawElements(gl, DrawCount))
    /\ UNCHANGED <<handle, glfw, transform, iter, clock, log, calls, outcome>>

\* glfwSwapBuffers(window); time passes while the frame is presented
SwapStep ==
    /\ pc = "swap"
    /\ \E dt \in 0..1 : clock' = IF clock + dt > MaxClock THEN clock ELSE clock + dt
    /\ \/ /\ handle # NULL
          /\ gl' = [gl EXCEPT !.frame = "presented"]
          /\ Proceed
       \/ /\ handle = NULL
          /\ gl' = gl
          /\ UndefinedInBody
    /\ UNCHANGED <<handle, glfw, transform, iter, log, calls, outcome>>

\* glfwPollEvents(): key and close events of the window, and the resize callback
PollStep ==
    /\ pc = "poll"
    /\ \/ /\ ~glfw.window
          /\ UNCHANGED <<glfw, gl>>
          /\ Proceed
       \/ /\ glfw.window
          /\ \E key \in {PRESS, RELEASE}, close \in BOOLEAN :
                glfw' = [glfw EXCEPT !.escape = key, !.shouldClose = @ \/ close]
          /\ \/ /\ gl' = gl
                /\ Proceed
             \/ /\ glfw.callback
                /\ gl.loaded
                /\ \E size \in Sizes : gl' = framebuffer_size_callback(gl, size[1], size[2])
                /\ Proceed
             \/ /\ glfw.callback
                /\ ~gl.loaded
                /\ gl' = gl
                /\ UndefinedInBody
    /\ UNCHANGED <<handle, transform, iter, clock, log, calls, outcome>>

\* glDeleteVertexArrays(1, &VAO); glDeleteBuffers(1, &VBO);
TeardownStep ==
    /\ GLStep("teardown", "terminate", Teardown(gl))
    /\ UNCHANGED <<handle, glfw, transform, trace, iter, clock, log, calls, outcome>>

TerminateStep ==
    /\ pc = "terminate"
    /\ glfw' = glfwTerminate(glfw)
    /\ pc' = "return"
    /\ UNCHANGED <<handle, gl, transform, trace, iter, clock, log, exitCode, calls, outcome>>

ReturnStep ==
    /\ pc = "return"
    /\ pc' = "done"
    /\ exitCode' = "0"
    /\ UNCHANGED <<handle, glfw, gl, transform, trace, iter, clock, log, calls, outcome>>

Next ==
    \/ InitStep
    \/ ShaderStep
    \/ TextureStep
    \/ GenStep
    \/ SetupStep
    \/ UnbindStep
    \/ PreludeStep
    \/ CheckStep
    \/ InputStep
    \/ ClearStep
    \/ TransformStep
    \/ UniformStep
    \/ DrawStep
    \/ SwapStep
    \/ PollStep
    \/ TeardownStep
    \/ TerminateStep
    \/ ReturnStep

Spec == Init /\ [][Next]_vars

----------------------------------------------------------------------------
(* processInput on its own: any window state the GLFW API can hold, inside a *)
(* loop that has passed its setup                                            *)

LoopGL(decodeOk, size) ==
    LET g0 == [GLNone EXCEPT !.loaded = TRUE, !.viewport = size]
        g1 == generateTexture(Shader(g0), << >>, NoCalls, decodeOk, 0, FALSE).gl
    IN  LoopPrelude(UnbindGeometry(SetupGeometry(GenObjects(g1))))

InitInput ==
    /\ pc = "input"
    /\ handle = "window"
    /\ \E flag \in BOOLEAN, key \in {PRESS, RELEASE} :
          glfw = [init |-> TRUE, window |-> TRUE, context |-> TRUE, callback |-> TRUE,
                  shouldClose |-> flag, escape |-> key, terminated |-> 0]
    /\ \E decodeOk \in BOOLEAN :
          /\ \E size \in Sizes \cup {<<SCR_WIDTH, SCR_HEIGHT>>} : gl = LoopGL(decodeOk, size)
          /\ log = IF decodeOk THEN << >> ELSE <<MsgTexture>>
          /\ outcome = [create |-> "ok", glad |-> "ok", decode |-> Verdict(decodeOk)]
    /\ transform = Identity
    /\ trace = << >>
    /\ iter \in 1..MaxIter
    /\ clock \in 0..MaxClock
    /\ exitCode = "running"
    /\ calls = [createWindow |-> 1, gladLoad |-> 1, stbiLoad |-> 1, stbiFree |-> 1,
                flip |-> FALSE]

NextInput == InputStep

SpecInput == InitInput /\ [][NextInput]_vars

----------------------------------------------------------------------------
(* Properties *)

BodyPcs == {BodyOrder[k] : k \in 1..Len(BodyOrder)}

AfterLoopPcs == {"teardown", "terminate", "return", "done"}

IsPrefix(s, t) == Len(s) <= Len(t) /\ SubSeq(t, 1, Len(s)) = s

\* C1: every iteration of the render loop runs process input, clear, recompute the
\* transform from identity, upload the uniform, draw 6 indices, swap, poll, once each
\* and in this order; the next iteration starts only after poll, none is skipped or
\* left partial.
C1_IterationOrder ==
    /\ IsPrefix(trace, BodyOrder)
    /\ pc \in BodyPcs => pc = BodyOrder[Len(trace) + 1]
    /\ (pc \in {"check"} \cup AfterLoopPcs /\ iter > 0) => trace = BodyOrder
    /\ pc \in {"start", "shader", "texture", "gen", "setup", "unbind", "prelude"} => iter = 0
    /\ pc \in {"uniform", "draw", "swap"} =>
          transform = rotate(translate(Identity, <<1, -1>>), glfwGetTime(glfw, clock))
    /\ pc = "poll" =>
          \E q \in 0..clock : transform = rotate(translate(Identity, <<1, -1>>), q)
    /\ (gl.loaded /\ pc = "transform") => gl.frame = "cleared"
    /\ (gl.loaded /\ pc \in {"draw", "swap", "poll"}) => gl.uniform = transform
    /\ (gl.loaded /\ pc = "swap") => (gl.frame = "drawn" /\ gl.lastDraw.count = 6)
    /\ (gl.loaded /\ pc = "poll") => gl.frame = "presented"

C1_Witness ==
    /\ pc = "check"
    /\ iter >= 2
    /\ trace = BodyOrder
    /\ gl.loaded
    /\ clock > 0

C2_Step ==
    handle # NULL =>
       /\ (pc = "check" /\ pc' # pc) =>
             pc' = IF glfw.shouldClose THEN "teardown" ELSE "input"
       /\ (pc' = "input" /\ pc # "input") => (pc = "check" /\ ~glfw.shouldClose)
       /\ (pc' = "teardown" /\ pc # "teardown") => (pc = "check" /\ glfw.shouldClose)
       /\ (pc' = "check" /\ pc # "check") => pc \in {"prelude", "poll"}
       /\ (pc \in BodyPcs /\ pc' # pc) => pc' = BodyNext(pc)
       /\ (pc \in BodyPcs /\ glfw.shouldClose) => glfw'.shouldClose

\* C2: the loop leaves "running" exactly when the close flag is true at the loop
\* condition, checked once per iteration: no body starts with the flag true, the loop
\* never ends with it false, and a close request raised inside an iteration (escape
\* key, OS close during polling) lets the rest of the iteration run and ends the loop
\* at the next check, followed by teardown.
C2_LoopTermination == [][C2_Step]_vars

C2_Witness ==
    /\ pc = "teardown"
    /\ handle # NULL
    /\ glfw.shouldClose
    /\ glfw.escape = PRESS
    /\ iter >= 2
    /\ trace = BodyOrder

\* C3: every GPU object (vertex array, vertex buffer, index buffer, texture, shader
\* program) is created exactly once before the loop, none is created or destroyed
\* while the loop runs, each is released exactly once after the loop, and none is
\* still allocated when the windowing library is terminated.
C3_Lifecycle ==
    gl.loaded =>
       /\ \A o \in Objects : gl.created[o] <= 1 /\ gl.deleted[o] <= gl.created[o]
       /\ pc \in {"check"} \cup BodyPcs =>
             \A o \in Objects : gl.created[o] = 1 /\ gl.deleted[o] = 0
       /\ pc \in {"terminate", "return", "done"} =>
             \A o \in Objects : gl.created[o] = 1 /\ gl.deleted[o] = 1

\* C4: the process finishes with exit code 0 in every execution, also when window
\* creation, GPU loader initialisation or the image decode fails.
C4_ExitZero == pc \in {"done", "crashed"} => exitCode = "0"

InitFailed == outcome.create = "fail" \/ outcome.glad = "fail"

C5_Common ==
    /\ handle = NULL <=> InitFailed
    /\ handle = NULL <=> (\E k \in 1..Len(log) : log[k] \in {MsgWindow, MsgGlad})
    /\ calls.createWindow = 1
    /\ calls.gladLoad = IF outcome.create = "ok" THEN 1 ELSE 0
    /\ handle # NULL => (glfw.window /\ glfw.context /\ glfw.callback /\ gl.loaded)

\* C5 as stated: initlializeGLFW returns null and logs iff window creation or loader
\* initialisation fails, without retry; on success the handle is non-null, the context
\* current and the resize callback installed, and the callback is installed only then.
C5_CallbackOnlyOnSuccess ==
    pc = "shader" => (C5_Common /\ (glfw.callback => handle # NULL))

\* C5 amended: as above, but the context is current and the resize callback installed
\* exactly when window creation succeeded, so also when loader initialisation then
\* fails and null is returned.
C5_CallbackWhenWindowCreated ==
    pc = "shader" =>
       /\ C5_Common
       /\ glfw.callback <=> outcome.create = "ok"
       /\ glfw.context <=> outcome.create = "ok"

C5_Witness ==
    /\ pc = "shader"
    /\ outcome.glad = "fail"
    /\ handle = NULL
    /\ glfw.callback

C6_Common ==
    /\ \E k \in 1..Len(log) : log[k] = MsgTexture
    /\ gl.tex.image = None
    /\ ~gl.tex.mipmaps
    /\ calls.stbiLoad = 1
    /\ gl.created["texture1"] = 1
    /\ gl.deleted["texture1"] = 0
    /\ gl.activeUnit = 0

\* C6 as stated: on a failed decode generateTexture logs, uploads no image, generates
\* no mipmaps, does not retry, and returns with the new texture still bound to the 2D
\* target of the selected unit.
C6_StillBound ==
    (pc = "gen" /\ gl.loaded /\ outcome.decode = "fail") =>
       (C6_Common /\ gl.texBinding[gl.activeUnit] = "texture1")

\* C6 amended: as above, but generateTexture returns with the 2D target of the
\* selected unit unbound; the texture object exists, without image, and is not bound.
C6_Unbound ==
    (pc = "gen" /\ gl.loaded /\ outcome.decode = "fail") =>
       (C6_Common /\ gl.texBinding[gl.activeUnit] = None)

C6_Witness ==
    /\ pc = "gen"
    /\ gl.loaded
    /\ outcome.decode = "fail"
    /\ gl.tex.wrapS = "GL_REPEAT"

C7_Step ==
    (pc = "input" /\ handle # NULL /\ pc' # pc) =>
       /\ glfw'.shouldClose = (glfw.shouldClose \/ glfw.escape = PRESS)
       /\ glfw' = [glfw EXCEPT !.shouldClose = glfw'.shouldClose]
       /\ gl' = gl
       /\ handle' = handle
       /\ transform' = transform

\* C7: processInput sets the close flag when escape is pressed and leaves it as it
\* was otherwise (false stays false, true is never reset); it changes nothing else.
C7_ProcessInput == [][C7_Step]_vars

C7_Witness ==
    /\ pc = "clear"
    /\ glfw.shouldClose
    /\ glfw.escape = RELEASE

AttribBytes(a, i) ==
    { gl.attrib[a].offset + i * gl.attrib[a].stride + b :
         b \in 0 .. gl.attrib[a].size * FloatSize - 1 }

RecordBytes(i, firstFloat, floats) ==
    { (i * StrideFloats + firstFloat) * FloatSize + b : b \in 0 .. floats * FloatSize - 1 }

\* C8: both vertex attributes match the layout of 5 floats per vertex (3 position, 2
\* texture coordinate): stride 5 floats, stride x 4 = vertex buffer size, position at
\* offset 0, and for every vertex the bytes each attribute reads lie in that vertex's
\* record, the second attribute reading exactly its two texture-coordinate floats.
C8_AttribLayout ==
    (gl.attrib[0].enabled /\ gl.attrib[1].enabled) =>
       /\ \A a \in 0..1 :
             /\ gl.attrib[a].stride = StrideFloats * FloatSize
             /\ gl.attrib[a].stride * VertexCount = Len(gl.bufferData["VBO"]) * FloatSize
       /\ gl.attrib[0].offset = 0
       /\ \A i \in 0 .. VertexCount - 1 :
             /\ AttribBytes(0, i) = RecordBytes(i, 0, 3)
             /\ AttribBytes(1, i) = RecordBytes(i, 3, 2)
             /\ \A b \in AttribBytes(1, i) :
                   b < Len(gl.bufferData["VBO"]) * FloatSize

\* C9: the index buffer holds 6 indices, two triangles, every index in 0..3, every
\* vertex referenced, and the draw call issues as many indices as were uploaded.
C9_Indices ==
    LET ebo == gl.bufferData["EBO"]
    IN  gl.attrib[0].enabled =>
           /\ Len(ebo) = 6
           /\ Len(ebo) = 2 * 3
           /\ \A k \in 1..Len(ebo) : ebo[k] >= 0 /\ ebo[k] < VertexCount
           /\ \A v \in 0 .. VertexCount - 1 : \E k \in 1..Len(ebo) : ebo[k] = v
           /\ gl.lastDraw.count \in {0, Len(ebo)}
           /\ pc \in {"swap", "poll"} => gl.lastDraw.count = Len(ebo)

C9_Witness ==
    /\ pc = "swap"
    /\ gl.loaded
    /\ gl.lastDraw.count = 6
    /\ gl.lastDraw.ebo = "EBO"

DrawBindings(program, unit, texture, vao, ebo) ==
    /\ program = "program"
    /\ unit = 0
    /\ texture = "texture1"
    /\ vao = "VAO"
    /\ ebo = "EBO"

C10_AtDraw ==
    gl.loaded =>
       /\ pc = "draw" =>
             DrawBindings(gl.program, gl.activeUnit, gl.texBinding[0], gl.boundVAO,
                          gl.vaoEBO)
       /\ gl.lastDraw.count # 0 =>
             DrawBindings(gl.lastDraw.program, gl.lastDraw.unit, gl.lastDraw.texture,
                          gl.lastDraw.vao, gl.lastDraw.ebo)
       /\ pc \in {"check"} \cup BodyPcs => gl.sampler = 0

C10_PollStep == pc = "poll" => gl' = [gl EXCEPT !.viewport = gl'.viewport]

\* C10: at every draw call, whatever the iteration and the resize, key and close
\* events before it, the shader program is in use, unit 0 is active with the texture
\* bound, the vertex array is bound and its element buffer is the index buffer,
\* although setup unbound texture, vertex buffer and vertex array; the resize callback
\* changes only the viewport.
C10_Bindings == [](C10_AtDraw) /\ [][C10_PollStep]_vars

C10_Witness ==
    /\ pc = "swap"
    /\ gl.loaded
    /\ iter >= 2
    /\ gl.viewport \in Sizes
    /\ glfw.escape = PRESS
    /\ gl.lastDraw.vao = "VAO"

====
